---- MODULE Spec2Model ----
(***************************************************************************)
(* A model of the three scripts of the repository:                         *)
(*   LonelyBorder.py   exact distance-transform search (find_furthest_point)*)
(*   LonelyKMeans.py   population centroid and its antipodal point          *)
(*   VoronoiLonely.py  down-sampling, batched Voronoi candidates, land      *)
(*                     filter and selection of the remotest vertex          *)
(*                                                                         *)
(* Numbers.  The scripts compute in floating point.  Here coordinates are  *)
(* exact: an integer, or a rational <<n, d>> with d > 0.  A distance is    *)
(* kept as its square (sqrt is monotone, so argmax and comparisons agree). *)
(* None is the empty tuple << >>.                                          *)
(***************************************************************************)
EXTENDS Integers, Sequences, FiniteSets, TLC

VARIABLES
    pc,                 \* position of the running script / call
    population_data,    \* raster: [rows, cols, val] with val[<<row, col>>]
    transform,          \* affine transform <<a, b, c, d, e, f>>
    nodata,             \* the raster's no-data sentinel
    furthest,           \* LonelyBorder: result of find_furthest_point
    point_in,           \* LonelyKMeans: argument (lat, lon) of antipodal_point
    centroid,           \* LonelyKMeans: result of find_population_centroid
    antipode,           \* LonelyKMeans: result of antipodal_point
    antipode2,          \* LonelyKMeans: antipodal_point applied to antipode
    target_points,      \* VoronoiLonely: target_points of the down-sampler
    batch_size,         \* VoronoiLonely: batch_size of the batched Voronoi
    world_gdf,          \* VoronoiLonely: the land polygons
    downsampled_points, \* VoronoiLonely: cluster centres (the seeds)
    batch_i,            \* VoronoiLonely: loop variable i of the batch loop
    batch_log,          \* VoronoiLonely: per batch, skipped (the message printed) or its vertices
    furthest_vertices,  \* VoronoiLonely: the candidate pool
    land_vertices,      \* VoronoiLonely: candidates that lie on land
    furthest_point,     \* VoronoiLonely: the selected vertex, or None
    returned,           \* VoronoiLonely: value returned by the called function
    error,              \* the exception raised, "" when none
    main_exit           \* VoronoiLonely: how main ended

vars == <<pc, population_data, transform, nodata, furthest, point_in, centroid,
          antipode, antipode2, target_points, batch_size, world_gdf,
          downsampled_points, batch_i, batch_log, furthest_vertices,
          land_vertices, furthest_point, returned, error, main_exit>>

rasterVars == <<population_data, transform, nodata>>
borderVars == <<furthest>>
kmeansVars == <<point_in, centroid, antipode, antipode2>>
voronoiVars == <<target_points, batch_size, world_gdf, downsampled_points,
                 batch_i, batch_log, furthest_vertices, land_vertices,
                 furthest_point, returned, main_exit>>

None == << >>

(***************************************************************************)
(* Arithmetic helpers                                                      *)
(***************************************************************************)
Abs(n) == IF n < 0 THEN -n ELSE n

Sq(n) == n * n

Min2(a, b) == IF a <= b THEN a ELSE b

RECURSIVE Gcd(_, _)
Gcd(a, b) == IF b = 0 THEN a ELSE Gcd(b, a % b)

\* Sum of f[x] over the finite set S.
RECURSIVE SumOver(_, _)
SumOver(S, f) ==
    IF S = {} THEN 0
    ELSE LET x == CHOOSE y \in S : TRUE
         IN  f[x] + SumOver(S \ {x}, f)

\* Rationals <<n, d>>, d > 0, compared by cross-multiplication.
RatEq(p, q) == p[1] * q[2] = q[1] * p[2]

RatLess(p, q) == p[1] * q[2] < q[1] * p[2]

(***************************************************************************)
(* Rasters and the affine transform                                        *)
(***************************************************************************)
Cells(r) == (0 .. r.rows - 1) \X (0 .. r.cols - 1)

\* Row-major (C order) index of a cell, as numpy flattens an array.
FlatIndex(r, cell) == cell[1] * r.cols + cell[2]

CellAt(r, k) == <<k \div r.cols, k % r.cols>>

\* rasterio Affine: transform * (col, row) = (a*col + b*row + c, d*col + e*row + f).
AffineApply(t, col, row) == <<t[1] * col + t[2] * row + t[3],
                              t[4] * col + t[5] * row + t[6]>>

(***************************************************************************)
(* LonelyKMeans.py: antipodal_point                                        *)
(***************************************************************************)
HalfTurn == 180

FullTurn == 360

\* The same with the longitude shifted and not normalised.
antipodal_point_unwrapped(lat, lon) ==
    << <<-lat[1], lat[2]>>, <<lon[1] + HalfTurn * lon[2], lon[2]>> >>

\* return -lat, (lon + 180) % 360 - 180      (Python's % is the floor modulus)
antipodal_point(lat, lon) ==
    << <<-lat[1], lat[2]>>,
       <<((lon[1] + HalfTurn * lon[2]) % (FullTurn * lon[2])) - HalfTurn * lon[2],
         lon[2]>> >>

(***************************************************************************)
(* Inputs: the rasters, sentinels and transforms the scripts are run on    *)
(***************************************************************************)
MaxRows == 4

MaxCols == 4

MaxOccupied == 2

\* Subsets of S with at most k elements.
RECURSIVE SubsetsUpTo(_, _)
SubsetsUpTo(S, k) ==
    IF k = 0 THEN {{}}
    ELSE LET P == SubsetsUpTo(S, k - 1)
         IN  P \cup {p \cup {x} : p \in P, x \in S}

\* Sentinels: a negative one (the usual float raster) and a positive one.
NoDataValues == {-1, 255}

\* (value of the marked cells, sentinel): a count, and a negative sensor artifact.
MarkedAndSentinel == { <<10, -1>>, <<-2, -1>> }

\* What the unmarked cells hold: zeros, or the sentinel and zeros mixed.
Backgrounds == {"zero", "mixed"}

BackgroundValue(bg, nd, cell) ==
    IF bg = "zero" THEN 0
    ELSE IF (cell[1] + cell[2]) % 2 = 0 THEN nd ELSE 0

MakeRaster(rows, cols, marked, bg, nd) ==
    [rows |-> rows, cols |-> cols,
     val  |-> [cell \in (0 .. rows - 1) \X (0 .. cols - 1) |->
                  IF cell \in DOMAIN marked THEN marked[cell]
                  ELSE BackgroundValue(bg, nd, cell)]]

\* The identity, and a north-up raster with descending rows and wide pixels.
Transforms == { <<1, 0, 0, 0, 1, 0>>, <<2, 0, -3, 0, -1, 4>> }

IdleRaster == [rows |-> 0, cols |-> 0, val |-> << >>]

IdleBorder == furthest = None

IdleKMeans == point_in = None /\ centroid = None /\ antipode = None /\ antipode2 = None

IdleVoronoi ==
    /\ target_points = 0 /\ batch_size = 0 /\ world_gdf = {}
    /\ downsampled_points = << >> /\ batch_i = 0 /\ batch_log = << >>
    /\ furthest_vertices = << >> /\ land_vertices = << >>
    /\ furthest_point = None /\ returned = None /\ main_exit = ""

\* A mask that forgets the sentinel: only cells of value 0 count as empty.
MaskZeroOnly(r, nd) ==
    [cell \in Cells(r) |-> IF r.val[cell] = 0 THEN 1 ELSE 0]

\* mask = ((population == 0) | (population == nodata)).astype(np.uint8)
Mask(r, nd) ==
    [cell \in Cells(r) |-> IF r.val[cell] = 0 \/ r.val[cell] = nd THEN 1 ELSE 0]

\* Squared distance between two cells under sampling = [size_y, size_x].
SampledDist2(size_y, size_x, c1, c2) ==
    Sq(size_y * (c1[1] - c2[1])) + Sq(size_x * (c1[2] - c2[2]))

\* Least element of a non-empty set of integers.
MinOf(S) == CHOOSE m \in S : \A n \in S : m <= n

\* scipy.ndimage.distance_transform_edt(mask, sampling): a non-zero cell gets
\* its distance to the nearest zero cell, a zero cell gets 0 (squared here).
\* Called only on a mask that has a zero cell.
distance_transform_edt(r, mask, size_y, size_x) ==
    LET zeros == {z \in Cells(r) : mask[z] = 0}
    IN  [cell \in Cells(r) |->
            IF mask[cell] = 0 THEN 0
            ELSE MinOf({SampledDist2(size_y, size_x, cell, z) : z \in zeros})]

\* np.argmax over the flattened array: a left-to-right scan that keeps the
\* first index of the greatest value.
RECURSIVE ArgMaxScan(_, _, _, _)
ArgMaxScan(r, a, k, best) ==
    IF k >= r.rows * r.cols THEN best
    ELSE ArgMaxScan(r, a, k + 1,
                    IF a[CellAt(r, k)] > a[CellAt(r, best)] THEN k ELSE best)

ArgMax(r, a) == ArgMaxScan(r, a, 1, 0)

\* lon, lat = transform * (col, row)
pixel_to_coordinates(col, row, t) == AffineApply(t, col, row)

\* find_furthest_point for a mask with a zero cell: (lon, lat, distance^2).
find_furthest_point(r, t, nd) ==
    LET mask == Mask(r, nd)
        pixel_size_x == Abs(t[1])
        pixel_size_y == Abs(t[5])
        distances == distance_transform_edt(r, mask, pixel_size_y, pixel_size_x)
        max_distance_pos == CellAt(r, ArgMax(r, distances))
        lonlat == pixel_to_coordinates(max_distance_pos[2], max_distance_pos[1], t)
    IN  <<lonlat[1], lonlat[2], distances[max_distance_pos]>>

\* A mask without a zero cell: the distance transform has no cell to measure
\* to, and what it returns is not specified; any cell and no distance.
Unspecified == -1

\* load_population_data: the raster, its transform and its sentinel.
InitBorder ==
    /\ pc = "border_loaded"
    /\ \E rows \in 1 .. MaxRows, cols \in 1 .. MaxCols :
       \E S \in SubsetsUpTo((0 .. rows - 1) \X (0 .. cols - 1), MaxOccupied) :
       \E vn \in MarkedAndSentinel, bg \in Backgrounds :
          /\ nodata = vn[2]
          /\ population_data = MakeRaster(rows, cols, [c \in S |-> vn[1]], bg, vn[2])
    /\ transform \in Transforms
    /\ IdleBorder /\ IdleKMeans /\ IdleVoronoi
    /\ error = ""

\* furthest_lon, furthest_lat, _ = find_furthest_point(population, transform, nodata)
FindFurthestPoint ==
    /\ pc = "border_loaded"
    /\ pc' = "border_found"
    /\ IF \E z \in Cells(population_data) :
             population_data.val[z] # 0 /\ population_data.val[z] # nodata
       THEN furthest' = find_furthest_point(population_data, transform, nodata)
       ELSE \E cell \in Cells(population_data) :
               furthest' = <<pixel_to_coordinates(cell[2], cell[1], transform)[1],
                             pixel_to_coordinates(cell[2], cell[1], transform)[2],
                             Unspecified>>
    /\ UNCHANGED <<rasterVars, kmeansVars, voronoiVars, error>>

NextBorder == FindFurthestPoint

SpecBorder == InitBorder /\ [][NextBorder]_vars

\* ---- C1 ----------------------------------------------------------------
\* A cell counts as occupied here when its value is neither 0 nor the sentinel.
C1_OccupiedCells ==
    {o \in Cells(population_data) :
        population_data.val[o] # 0 /\ population_data.val[o] # nodata}

C1_NearestDist2(cell) ==
    MinOf({Sq(Abs(transform[5]) * (cell[1] - o[1])) + Sq(Abs(transform[1]) * (cell[2] - o[2])) :
              o \in C1_OccupiedCells})

\* C1: with at least one occupied cell, find_furthest_point returns
\* D = max over cells of the distance to the nearest occupied cell (scaled by
\* the pixel sizes) and the coordinates of the first cell, in row-major order,
\* that attains D; on the 4x4 identity raster with one occupied cell of value 10
\* at (0, 0) that is the location (3, 3) at squared distance 18.
C1_FurthestIsMaxMin ==
    (pc = "border_found" /\ C1_OccupiedCells # {}) =>
        /\ \E first \in Cells(population_data) :
              /\ furthest = <<transform[1] * first[2] + transform[2] * first[1] + transform[3],
                              transform[4] * first[2] + transform[5] * first[1] + transform[6],
                              C1_NearestDist2(first)>>
              /\ \A c \in Cells(population_data) :
                    /\ C1_NearestDist2(c) <= furthest[3]
                    /\ C1_NearestDist2(c) = furthest[3]
                          => FlatIndex(population_data, first) <= FlatIndex(population_data, c)
        /\ ( /\ population_data.rows = 4 /\ population_data.cols = 4
             /\ transform = <<1, 0, 0, 0, 1, 0>>
             /\ C1_OccupiedCells = {<<0, 0>>}
             /\ population_data.val[<<0, 0>>] = 10 )
           => furthest = <<3, 3, 18>>

\* The 4x4 scenario has run, and so has a raster with a tie for the maximum.
C1_Witness ==
    /\ pc = "border_found"
    /\ population_data.rows = 4 /\ population_data.cols = 4
    /\ transform = <<1, 0, 0, 0, 1, 0>>
    /\ C1_OccupiedCells = {<<0, 0>>}
    /\ population_data.val[<<0, 0>>] = 10
    /\ furthest = <<3, 3, 18>>

(***************************************************************************)
(* LonelyKMeans.py                                                         *)
(***************************************************************************)
CentroidMaxRows == 2

CentroidMaxCols == 3

\* Population counts of the marked cells.
Weights == {1, 3}

\* A raster whose cell centres are 10 degrees apart in x and 2 in y, centred on
\* (0, 0); and a north-up raster with descending rows.
CentroidTransforms == { <<10, 0, -5, 0, 2, -1>>, <<2, 0, -3, 0, -1, 4>> }

\* rasterio.transform.xy(transform, rows, cols) with the default offset
\* "center": the transform applied to (col + 0.5, row + 0.5); it returns
\* (xs, ys).  Coordinates are doubled here, so that they stay integers.
xy2(t, row, col) ==
    <<t[1] * (2 * col + 1) + t[2] * (2 * row + 1) + 2 * t[3],
      t[4] * (2 * col + 1) + t[5] * (2 * row + 1) + 2 * t[6]>>

\* y, x = np.where(population_data > 0)
PositiveCells(r) == {cell \in Cells(r) : r.val[cell] > 0}

\* KMeans(n_clusters=1).fit(X, sample_weight=w).cluster_centers_[0]: the
\* weighted mean of the rows of X, column by column (as rationals).  X here has
\* the doubled coordinates, so the denominator is doubled too.
WeightedMean(S, col1, col2, w) ==
    << <<SumOver(S, [c \in S |-> w[c] * col1[c]]), 2 * SumOver(S, w)>>,
       <<SumOver(S, [c \in S |-> w[c] * col2[c]]), 2 * SumOver(S, w)>> >>

\* find_population_centroid: the names lats and lons are bound to what xy
\* returns, (xs, ys), in that order, and the centre of the array
\* column_stack((lats, lons)) is returned.  Called with a cell of value > 0.
find_population_centroid(r, t) ==
    LET S == PositiveCells(r)
        lats == [c \in S |-> xy2(t, c[1], c[2])[1]]
        lons == [c \in S |-> xy2(t, c[1], c[2])[2]]
        weights == [c \in S |-> r.val[c]]
    IN  WeightedMean(S, lats, lons, weights)

\* load_geotiff: the raster and its transform (the sentinel is not read).
InitKMeans ==
    /\ pc = "kmeans_loaded"
    /\ \E rows \in 1 .. CentroidMaxRows, cols \in 1 .. CentroidMaxCols :
       \E S \in SubsetsUpTo((0 .. rows - 1) \X (0 .. cols - 1), MaxOccupied) :
       \E w \in [S -> Weights], bg \in Backgrounds, nd \in NoDataValues :
          /\ nodata = nd
          /\ population_data = MakeRaster(rows, cols, w, bg, nd)
    /\ transform \in CentroidTransforms
    /\ IdleBorder /\ IdleKMeans /\ IdleVoronoi
    /\ error = ""

\* A call of find_population_centroid: KMeans.fit raises ValueError on an
\* array with no sample.
CentroidStep(from, ok, raised) ==
    /\ pc = from
    /\ IF PositiveCells(population_data) = {}
       THEN /\ pc' = raised
            /\ error' = "ValueError: Found array with 0 sample(s)"
            /\ UNCHANGED centroid
       ELSE /\ pc' = ok
            /\ centroid' = find_population_centroid(population_data, transform)
            /\ UNCHANGED error
    /\ UNCHANGED <<rasterVars, borderVars, point_in, antipode, antipode2, voronoiVars>>

\* centroid_lat, centroid_lon = find_population_centroid(population_data, transform)
\* main does not catch the exception.
FindPopulationCentroid == CentroidStep("kmeans_loaded", "kmeans_centroid", "kmeans_crashed")

\* antipodal_lat, antipodal_lon = antipodal_point(centroid_lat, centroid_lon)
MainAntipodal ==
    /\ pc = "kmeans_centroid"
    /\ pc' = "kmeans_antipode"
    /\ point_in' = centroid
    /\ antipode' = antipodal_point(centroid[1], centroid[2])
    /\ UNCHANGED <<rasterVars, borderVars, centroid, antipode2, voronoiVars, error>>

\* print, create_map, m.save
MainReport ==
    /\ pc = "kmeans_antipode"
    /\ pc' = "kmeans_done"
    /\ UNCHANGED <<rasterVars, borderVars, kmeansVars, voronoiVars, error>>

NextKMeans == FindPopulationCentroid \/ MainAntipodal \/ MainReport

SpecKMeans == InitKMeans /\ [][NextKMeans]_vars

\* ---- antipodal_point called on its own -----------------------------------
MaxLon == 540

\* Latitudes: the poles, the equator and values between, whole and half degrees.
LatInputs == { <<-90, 1>>, <<-91, 2>>, <<0, 1>>, <<1, 2>>, <<45, 1>>, <<90, 1>> }

\* Longitudes: whole and half degrees in [-MaxLon, MaxLon].
LonInputs ==
    {<<n, 1>> : n \in -MaxLon .. MaxLon} \cup {<<2 * n + 1, 2>> : n \in -MaxLon .. MaxLon - 1}

InitAntipodal ==
    /\ pc = "antipodal_call"
    /\ point_in \in LatInputs \X LonInputs
    /\ population_data = IdleRaster /\ transform = None /\ nodata = 0
    /\ IdleBorder /\ centroid = None /\ antipode = None /\ antipode2 = None
    /\ IdleVoronoi
    /\ error = ""

\* antipodal_point(lat, lon)
CallAntipodal ==
    /\ pc = "antipodal_call"
    /\ pc' = "antipodal_once"
    /\ antipode' = antipodal_point(point_in[1], point_in[2])
    /\ UNCHANGED <<rasterVars, borderVars, point_in, centroid, antipode2, voronoiVars, error>>

\* antipodal_point(*antipodal_point(lat, lon))
CallAntipodalAgain ==
    /\ pc = "antipodal_once"
    /\ pc' = "antipodal_twice"
    /\ antipode2' = antipodal_point(antipode[1], antipode[2])
    /\ UNCHANGED <<rasterVars, borderVars, point_in, centroid, antipode, voronoiVars, error>>

NextAntipodal == CallAntipodal \/ CallAntipodalAgain

SpecAntipodal == InitAntipodal /\ [][NextAntipodal]_vars

\* lon (a rational) lies in [-180, 180).
InRange(lon) == -180 * lon[2] <= lon[1] /\ lon[1] < 180 * lon[2]

\* q is p moved by a whole number of turns.
SameModTurn(p, q) == (p[1] * q[2] - q[1] * p[2]) % (360 * p[2] * q[2]) = 0

\* ---- C2 ----------------------------------------------------------------
\* C2: for lon in [-180, 180), antipodal_point(lat, lon) is (-lat, L) with L in
\* [-180, 180) and L = lon + 180 modulo 360; antipodal_point(0, 5) = (0, -175).
C2_AntipodalShiftsByHalfTurn ==
    (pc = "antipodal_once" /\ InRange(point_in[2])) =>
        /\ RatEq(antipode[1], <<-point_in[1][1], point_in[1][2]>>)
        /\ InRange(antipode[2])
        /\ SameModTurn(antipode[2], <<point_in[2][1] + 180 * point_in[2][2], point_in[2][2]>>)
        /\ (point_in = << <<0, 1>>, <<5, 1>> >>) =>
               (RatEq(antipode[1], <<0, 1>>) /\ RatEq(antipode[2], <<-175, 1>>))

\* ---- C3 ----------------------------------------------------------------
\* C3: antipodal_point applied twice gives (lat, lon wrapped into [-180, 180)),
\* which is (lat, lon) itself when lon already lies in [-180, 180).
C3_AntipodalRoundTrip ==
    (pc = "antipodal_twice") =>
        /\ RatEq(antipode2[1], point_in[1])
        /\ InRange(antipode2[2])
        /\ SameModTurn(antipode2[2], point_in[2])
        /\ InRange(point_in[2]) => RatEq(antipode2[2], point_in[2])

\* A longitude outside [-180, 180) has gone round: 200 comes back as -160.
C3_Witness ==
    /\ pc = "antipodal_twice"
    /\ point_in = << <<45, 1>>, <<200, 1>> >>
    /\ antipode2 = << <<45, 1>>, <<-160, 1>> >>

\* ---- C4 ----------------------------------------------------------------
C4_OccupiedCells ==
    {c \in Cells(population_data) :
        population_data.val[c] > 0 /\ population_data.val[c] # nodata}

\* Longitude (x) and latitude (y) of a cell's centre, doubled.
C4_Lon2(c) == transform[1] * (2 * c[2] + 1) + transform[2] * (2 * c[1] + 1) + 2 * transform[3]

C4_Lat2(c) == transform[4] * (2 * c[2] + 1) + transform[5] * (2 * c[1] + 1) + 2 * transform[6]

C4_Weight == SumOver(C4_OccupiedCells, [c \in C4_OccupiedCells |-> population_data.val[c]])

\* C4: with an occupied cell, find_population_centroid returns (lat, lon), in
\* that order: the means of the latitudes and of the longitudes of exactly the
\* occupied cells, weighted by the cells' values.
C4_CentroidIsLatLon ==
    (pc = "kmeans_centroid" /\ C4_OccupiedCells # {}) =>
        /\ RatEq(centroid[1],
                 <<SumOver(C4_OccupiedCells,
                           [c \in C4_OccupiedCells |-> population_data.val[c] * C4_Lat2(c)]),
                   2 * C4_Weight>>)
        /\ RatEq(centroid[2],
                 <<SumOver(C4_OccupiedCells,
                           [c \in C4_OccupiedCells |-> population_data.val[c] * C4_Lon2(c)]),
                   2 * C4_Weight>>)

(***************************************************************************)
(* VoronoiLonely.py: downsample_population_points                          *)
(***************************************************************************)
\* Number of cells of value <= v, and of value < v.
CountLeq(r, v) == Cardinality({c \in Cells(r) : r.val[c] <= v})

CountLess(r, v) == Cardinality({c \in Cells(r) : r.val[c] < v})

\* The j-th smallest cell value (j from 0), as in the sorted flattened array.
KthSmallest(r, j) ==
    CHOOSE v \in {r.val[c] : c \in Cells(r)} : CountLess(r, v) <= j /\ j < CountLeq(r, v)

Percent == 90

\* np.percentile(a, 90), linear interpolation, times 100: the virtual index
\* is 0.9 * (N - 1) and the value lies between its two neighbours.
Percentile90x100(r) ==
    LET N    == r.rows * r.cols
        pos  == Percent * (N - 1)
        lo   == pos \div 100
        frac == pos % 100
    IN  IF frac = 0 THEN 100 * KthSmallest(r, lo)
        ELSE 100 * KthSmallest(r, lo)
               + frac * (KthSmallest(r, lo + 1) - KthSmallest(r, lo))

\* y, x = np.where(population_data > np.percentile(population_data, 90))
QualifyingCells(r) ==
    LET p == Percentile90x100(r)
    IN  {c \in Cells(r) : 100 * r.val[c] > p}

MaxTemplates == 3

\* Seed triples: a right triangle (circumcentre (1, 1)), a triangle that has a
\* seed at (1, 1), three collinear points, and a scalene triangle (circumcentre
\* (3/2, 1/2)).
SeedTemplates ==
    { << <<0, 0>>, <<2, 0>>, <<0, 2>> >>,
      << <<1, 1>>, <<3, 1>>, <<1, 3>> >>,
      << <<0, 0>>, <<1, 1>>, <<2, 2>> >>,
      << <<0, 0>>, <<3, 0>>, <<1, 2>> >> }

TemplateLen == Len(CHOOSE t \in SeedTemplates : TRUE)

RECURSIVE TemplateChains(_)
TemplateChains(n) ==
    IF n = 0 THEN {<< >>}
    ELSE {c \o t : c \in TemplateChains(n - 1), t \in SeedTemplates}

\* The cluster centres that a fit with k clusters may return: MiniBatchKMeans
\* starts from a random initialisation, so any k of these planar points, in any
\* of these orders.  Column 1 is the list named lons, column 2 the list named
\* lats (np.column_stack([lons, lats])).
ClusterCentres(k) ==
    {SubSeq(c, 1, k) : c \in TemplateChains((k + TemplateLen - 1) \div TemplateLen)}

MaxSeeds == TemplateLen * MaxTemplates

ErrNoSamples == "ValueError: Found array with 0 sample(s)"

ErrTooFewSamples == "ValueError: n_samples should be >= n_clusters"

\* MiniBatchKMeans(n_clusters=k).fit(points): the exception raised for n
\* samples, "" when the fit succeeds.
FitError(n, k) ==
    IF n = 0 THEN ErrNoSamples
    ELSE IF n < k THEN ErrTooFewSamples
    ELSE ""

(***************************************************************************)
(* VoronoiLonely.py: process_voronoi_in_batches                            *)
(***************************************************************************)
PointSet(batch) == {batch[j] : j \in 1 .. Len(batch)}

Cross(A, B, C) == (B[1] - A[1]) * (C[2] - A[2]) - (B[2] - A[2]) * (C[1] - A[1])

Norm2(A) == Sq(A[1]) + Sq(A[2])

\* A rational point <<x, y, d>> (the point (x/d, y/d)) in lowest terms, d > 0.
Reduced(x, y, d) ==
    LET g == Gcd(Gcd(Abs(x), Abs(y)), Abs(d))
        sgn == IF d < 0 THEN -1 ELSE 1
    IN  <<sgn * (x \div g), sgn * (y \div g), sgn * (d \div g)>>

\* The point equidistant from A, B and C (not collinear).
Circumcentre(A, B, C) ==
    Reduced(Norm2(A) * (B[2] - C[2]) + Norm2(B) * (C[2] - A[2]) + Norm2(C) * (A[2] - B[2]),
            Norm2(A) * (C[1] - B[1]) + Norm2(B) * (A[1] - C[1]) + Norm2(C) * (B[1] - A[1]),
            2 * Cross(A, B, C))

\* Squared distance from the rational point v to the integer point P, times v[3]^2.
Dist2Scaled(v, P) == Sq(v[1] - P[1] * v[3]) + Sq(v[2] - P[2] * v[3])

\* Qhull fails on a batch with fewer than three distinct points or with all
\* points on one line (no initial simplex).
VoronoiFails(batch) ==
    LET P == PointSet(batch)
    IN  \/ Cardinality(P) < 3
        \/ \A A \in P, B \in P, C \in P : Cross(A, B, C) = 0

\* Voronoi(batch).vertices as a set: the circumcentres of the triples of
\* seeds whose circumcircle has no seed inside.
VoronoiVertexSet(batch) ==
    LET P == PointSet(batch)
        Empty(u) ==
            LET cc == Circumcentre(u[1], u[2], u[3])
                r2 == Dist2Scaled(cc, u[1])
            IN  \A Q \in P : Dist2Scaled(cc, Q) >= r2
    IN  {Circumcentre(t[1], t[2], t[3]) :
            t \in {u \in P \X P \X P : Cross(u[1], u[2], u[3]) > 0 /\ Empty(u)}}

\* The sequences that list every element of S once.
Orderings(S) ==
    {o \in [1 .. Cardinality(S) -> S] :
        \A i \in 1 .. Cardinality(S), j \in 1 .. Cardinality(S) : i # j => o[i] # o[j]}

\* batch_points = points[i:i+batch_size]    (i counts from 0)
BatchOf(points, i, b) == SubSeq(points, i + 1, Min2(i + b, Len(points)))

\* The loop left at the first batch that fails.
NextBatchIndexBreak(i, b, failed, n) == IF failed THEN n ELSE i + b

\* for i in range(0, len(points), batch_size): the next i, whether or not the
\* batch raised.
NextBatchIndex(i, b, failed, n) == i + b

(***************************************************************************)
(* VoronoiLonely.py: find_remote_point_voronoi                             *)
(***************************************************************************)
\* np.any(np.isnan(vertex)): a vertex with a coordinate that is not a number.
IsNaN(v) == v[3] = 0

\* shapely contains: a point of the polygon's interior.  A polygon is the
\* rectangle <<x0, y0, x1, y1>>; the point is (x, y) = (v[1]/v[3], v[2]/v[3]).
Contains(poly, v) ==
    /\ poly[1] * v[3] < v[1] /\ v[1] < poly[3] * v[3]
    /\ poly[2] * v[3] < v[2] /\ v[2] < poly[4] * v[3]

\* vertices_gdf[... any(world_gdf.contains(x.geometry)) ...] over the vertices
\* that are numbers, in their order.
LandFilter(vertices, world) ==
    SelectSeq(vertices, LAMBDA v : ~IsNaN(v) /\ \E poly \in world : Contains(poly, v))

\* vertex.distance(population_points), squared, as a rational: the least
\* distance from v to a seed.
MinDist2(v, seeds) ==
    <<MinOf({Dist2Scaled(v, seeds[j]) : j \in 1 .. Len(seeds)}), Sq(v[3])>>

\* for vertex in land_vertices.geometry: if dist > max_distance: ...
\* started from max_distance = 0 and furthest_point = None.
RECURSIVE SelectScan(_, _, _, _, _)
SelectScan(land, seeds, j, max_distance, best) ==
    IF j > Len(land) THEN best
    ELSE LET dist == MinDist2(land[j], seeds)
         IN  IF RatLess(max_distance, dist)
             THEN SelectScan(land, seeds, j + 1, dist, land[j])
             ELSE SelectScan(land, seeds, j + 1, max_distance, best)

SelectFurthestVertex(land, seeds) == SelectScan(land, seeds, 1, <<0, 1>>, None)

\* The pair in the order (x, y).
ReturnPairXY(v) == << <<v[1], v[3]>>, <<v[2], v[3]>> >>

\* return furthest_point.y, furthest_point.x
ReturnPair(v) == << <<v[2], v[3]>>, <<v[1], v[3]>> >>

ErrNoLand == "ValueError: No valid vertices found on land"

ErrNoneType == "AttributeError: 'NoneType' object has no attribute 'y'"

(***************************************************************************)
(* VoronoiLonely.py: the run of main                                       *)
(***************************************************************************)
MinBatchSize == 2

MaxBatchSize == 3

DefaultTargetPoints == 1000

MapTargetPoints == 100

\* How many of the raster's rows have a town: none, half of them, all.
TownCounts == {0, MaxSeeds \div 2, MaxSeeds}

\* A raster of MaxSeeds rows of ten cells; the last cell of each of the first
\* h rows is a town (of value 5), so h cells lie above the 90th percentile.
TownRaster(h, bg, nd) ==
    MakeRaster(MaxSeeds, 10, [c \in (0 .. h - 1) \X {9} |-> 5], bg, nd)

\* Land: none; one square; two rectangles.
Worlds == { {}, { <<0, 0, 2, 2>> }, { <<1, 0, 2, 1>>, <<1, 1, 4, 4>> } }

\* load_geotiff and gpd.read_file.  target_points and batch_size stand for the
\* defaults of the two functions (1000 and 100), scaled to the seeds modelled.
InitVoronoi ==
    /\ pc = "voronoi_loaded"
    /\ nodata \in NoDataValues
    /\ \E h \in TownCounts, bg \in Backgrounds :
          population_data = TownRaster(h, bg, nodata)
    /\ transform = <<1, 0, 0, 0, 1, 0>>
    /\ target_points \in 1 .. MaxSeeds
    /\ batch_size \in MinBatchSize .. MaxBatchSize
    /\ world_gdf \in Worlds
    /\ downsampled_points = << >> /\ batch_i = 0 /\ batch_log = << >>
    /\ furthest_vertices = << >> /\ land_vertices = << >>
    /\ furthest_point = None /\ returned = None /\ main_exit = ""
    /\ IdleBorder /\ IdleKMeans
    /\ error = ""

\* A call of downsample_population_points(population_data, transform, k).
DownsampleStep(from, ok, raised) ==
    /\ pc = from
    /\ LET n   == Cardinality(QualifyingCells(population_data))
           err == FitError(n, target_points)
       IN  IF err # ""
           THEN /\ pc' = raised
                /\ error' = err
                /\ UNCHANGED downsampled_points
           ELSE /\ pc' = ok
                /\ downsampled_points' \in ClusterCentres(target_points)
                /\ UNCHANGED error
    /\ UNCHANGED <<rasterVars, borderVars, kmeansVars, target_points, batch_size,
                   world_gdf, batch_i, batch_log, furthest_vertices, land_vertices,
                   furthest_point, returned, main_exit>>

\* downsampled_points = downsample_population_points(population_data, transform)
Downsample == DownsampleStep("voronoi_loaded", "voronoi_batches", "voronoi_raised")

\* One turn of the loop of process_voronoi_in_batches: the batch's vertices,
\* in the order Qhull lists them, are appended, or the batch is skipped.
ProcessBatch ==
    /\ pc = "voronoi_batches"
    /\ batch_i < Len(downsampled_points)
    /\ LET batch_points == BatchOf(downsampled_points, batch_i, batch_size)
           failed == VoronoiFails(batch_points)
       IN  /\ IF failed
              THEN /\ batch_log' = Append(batch_log, [skipped |-> TRUE, vertices |-> << >>])
                   /\ UNCHANGED furthest_vertices
              ELSE \E vertices \in Orderings(VoronoiVertexSet(batch_points)) :
                      /\ furthest_vertices' = furthest_vertices \o vertices
                      /\ batch_log' = Append(batch_log, [skipped |-> FALSE, vertices |-> vertices])
           /\ batch_i' = NextBatchIndex(batch_i, batch_size, failed, Len(downsampled_points))
    /\ UNCHANGED <<pc, rasterVars, borderVars, kmeansVars, target_points, batch_size,
                   world_gdf, downsampled_points, land_vertices, furthest_point,
                   returned, main_exit, error>>

\* The loop has ended: the vertices are filtered to land, and the function
\* raises when none is left.
FilterLand ==
    /\ pc = "voronoi_batches"
    /\ batch_i >= Len(downsampled_points)
    /\ land_vertices' = LandFilter(furthest_vertices, world_gdf)
    /\ IF land_vertices' = << >>
       THEN pc' = "voronoi_raised" /\ error' = ErrNoLand
       ELSE pc' = "voronoi_filtered" /\ UNCHANGED error
    /\ UNCHANGED <<rasterVars, borderVars, kmeansVars, target_points, batch_size,
                   world_gdf, downsampled_points, batch_i, batch_log,
                   furthest_vertices, furthest_point, returned, main_exit>>

\* The selection loop and the return; furthest_point.y on None raises.
SelectFurthest ==
    /\ pc = "voronoi_filtered"
    /\ furthest_point' = SelectFurthestVertex(land_vertices, downsampled_points)
    /\ IF furthest_point' = None
       THEN pc' = "voronoi_raised" /\ error' = ErrNoneType /\ UNCHANGED returned
       ELSE pc' = "voronoi_returned" /\ returned' = ReturnPair(furthest_point')
            /\ UNCHANGED error
    /\ UNCHANGED <<rasterVars, borderVars, kmeansVars, target_points, batch_size,
                   world_gdf, downsampled_points, batch_i, batch_log,
                   furthest_vertices, land_vertices, main_exit>>

\* The rest of main's try block: the points for the map (a tenth of the
\* default target), create_map, m.save and the two prints.
MainMap ==
    /\ pc = "voronoi_returned"
    /\ pc' = "voronoi_done"
    /\ LET k2  == IF (target_points * MapTargetPoints) \div DefaultTargetPoints < 1 THEN 1
                  ELSE (target_points * MapTargetPoints) \div DefaultTargetPoints
           err == FitError(Cardinality(QualifyingCells(population_data)), k2)
       IN  IF err # ""
           THEN error' = err /\ main_exit' = "printed_error"
           ELSE main_exit' = "printed_result" /\ UNCHANGED error
    /\ UNCHANGED <<rasterVars, borderVars, kmeansVars, target_points, batch_size,
                   world_gdf, downsampled_points, batch_i, batch_log,
                   furthest_vertices, land_vertices, furthest_point, returned>>

\* No try block around the call: the exception ends the run with a traceback.
MainCrash ==
    /\ pc = "voronoi_raised"
    /\ pc' = "voronoi_crashed"
    /\ main_exit' = "traceback"
    /\ UNCHANGED <<rasterVars, borderVars, kmeansVars, target_points, batch_size,
                   world_gdf, downsampled_points, batch_i, batch_log,
                   furthest_vertices, land_vertices, furthest_point, returned, error>>

\* except Exception as e: the two prints, and main returns.
MainCatch ==
    /\ pc = "voronoi_raised"
    /\ pc' = "voronoi_done"
    /\ main_exit' = "printed_error"
    /\ UNCHANGED <<rasterVars, borderVars, kmeansVars, target_points, batch_size,
                   world_gdf, downsampled_points, batch_i, batch_log,
                   furthest_vertices, land_vertices, furthest_point, returned, error>>

NextVoronoi ==
    \/ Downsample
    \/ ProcessBatch
    \/ FilterLand
    \/ SelectFurthest
    \/ MainMap
    \/ MainCatch

SpecVoronoi == InitVoronoi /\ [][NextVoronoi]_vars

\* ---- the two raster functions called on their own -----------------------
MaxCells == 4

\* Every raster of one row of up to MaxCells cells over {sentinel, 0, 1, 2}.
SmallRowRasters(nd) ==
    UNION { { [rows |-> 1, cols |-> n, val |-> f] : f \in [{0} \X (0 .. n - 1) -> {nd, 0, 1, 2}] } :
            n \in 1 .. MaxCells }

InitCalls ==
    /\ pc = "calls_ready"
    /\ nodata \in NoDataValues
    /\ population_data \in
          SmallRowRasters(nodata)
            \cup {TownRaster(h, bg, nodata) : h \in TownCounts, bg \in Backgrounds}
    /\ transform \in CentroidTransforms
    /\ target_points \in 1 .. MaxSeeds
    /\ batch_size = 0 /\ world_gdf = {}
    /\ downsampled_points = << >> /\ batch_i = 0 /\ batch_log = << >>
    /\ furthest_vertices = << >> /\ land_vertices = << >>
    /\ furthest_point = None /\ returned = None /\ main_exit = ""
    /\ IdleBorder /\ IdleKMeans
    /\ error = ""

\* downsample_population_points(population_data, transform, target_points)
CallDownsample == DownsampleStep("calls_ready", "downsample_returned", "downsample_raised")

\* find_population_centroid(population_data, transform)
CallCentroid == CentroidStep("calls_ready", "centroid_returned", "centroid_raised")

NextCalls == CallDownsample \/ CallCentroid

SpecCalls == InitCalls /\ [][NextCalls]_vars

\* ---- C5 ----------------------------------------------------------------
\* C5: when find_remote_point_voronoi returns (lat, lon), the point with that
\* longitude (x) and that latitude (y) lies in at least one land polygon.
C5_ReturnedPointOnLand ==
    (pc \in {"voronoi_returned", "voronoi_done"} /\ returned # None) =>
        LET lat == returned[1]
            lon == returned[2]
        IN  \E poly \in world_gdf :
               /\ poly[1] * lon[2] < lon[1] /\ lon[1] < poly[3] * lon[2]
               /\ poly[2] * lat[2] < lat[1] /\ lat[1] < poly[4] * lat[2]

\* A point off the diagonal was returned (lat 1/2, lon 3/2) after a batch was skipped.
C5_Witness ==
    /\ pc = "voronoi_returned"
    /\ returned = << <<1, 2>>, <<3, 2>> >>
    /\ \E j \in 1 .. Len(batch_log) : batch_log[j].skipped

\* ---- C6 ----------------------------------------------------------------
\* C6: downsample_population_points returns at most k points, and with n
\* qualifying cells, 0 < n < k, it does not fail and returns exactly n points.
C6_DownsampleClampsToAvailable ==
    LET n == Cardinality(QualifyingCells(population_data))
    IN  /\ pc = "downsample_returned" => Len(downsampled_points) <= target_points
        /\ (pc \in {"downsample_returned", "downsample_raised"} /\ 0 < n /\ n < target_points)
              => (pc = "downsample_returned" /\ Len(downsampled_points) = n)

\* ---- C7 ----------------------------------------------------------------
\* C7: on a raster with no occupied cell (every cell 0 or the sentinel) both
\* downsample_population_points and find_population_centroid fail, and neither
\* returns a point set or a centroid.
C7_EmptyPopulationFails ==
    (\A c \in Cells(population_data) :
        population_data.val[c] = 0 \/ population_data.val[c] = nodata)
      => /\ pc \notin {"downsample_returned", "centroid_returned"}
         /\ pc = "downsample_raised" => (error # "" /\ downsampled_points = << >>)
         /\ pc = "centroid_raised" => (error # "" /\ centroid = None)

\* ---- C8 ----------------------------------------------------------------
\* The land filter has run.
FilterRan == downsampled_points # << >> /\ pc # "voronoi_batches"

NoVertexOnLand ==
    \A j \in 1 .. Len(furthest_vertices) :
        \A poly \in world_gdf : ~Contains(poly, furthest_vertices[j])

\* C8: when no collected vertex lies in a land polygon (also when no vertex was
\* collected), find_remote_point_voronoi ends with the "no valid vertices on
\* land" error and returns nothing, and main catches it and ends normally.
C8_NoCandidateOnLandIsCaught ==
    (pc \in {"voronoi_filtered", "voronoi_returned", "voronoi_raised",
             "voronoi_done", "voronoi_crashed"}
       /\ FilterRan /\ NoVertexOnLand) =>
        /\ error = ErrNoLand
        /\ returned = None /\ furthest_point = None
        /\ pc \in {"voronoi_raised", "voronoi_done"}
        /\ pc = "voronoi_done" => main_exit = "printed_error"

\* Vertices were collected, none on land, and main has ended after its except branch.
C8_Witness ==
    /\ pc = "voronoi_done"
    /\ furthest_vertices # << >>
    /\ NoVertexOnLand
    /\ error = ErrNoLand
    /\ main_exit = "printed_error"

\* ---- C9 ----------------------------------------------------------------
\* Squared distance from a vertex to the nearest of all seeds, as a rational.
C9_Dist2(v) ==
    <<MinOf({Sq(v[1] - downsampled_points[j][1] * v[3]) + Sq(v[2] - downsampled_points[j][2] * v[3]) :
                j \in 1 .. Len(downsampled_points)}),
      Sq(v[3])>>

\* C9: when a vertex survives the land filter, find_remote_point_voronoi returns
\* a point: the retained vertex farthest from the whole seed set, the first such
\* in iteration order.
C9_ReturnsFarthestRetained ==
    (pc \in {"voronoi_returned", "voronoi_raised", "voronoi_done"}
       /\ FilterRan /\ land_vertices # << >>) =>
        /\ returned # None
        /\ \E j \in 1 .. Len(land_vertices) :
              /\ returned = << <<land_vertices[j][2], land_vertices[j][3]>>,
                               <<land_vertices[j][1], land_vertices[j][3]>> >>
              /\ \A i \in 1 .. Len(land_vertices) :
                    /\ ~RatLess(C9_Dist2(land_vertices[j]), C9_Dist2(land_vertices[i]))
                    /\ i < j => RatLess(C9_Dist2(land_vertices[i]), C9_Dist2(land_vertices[j]))

\* ---- C10 ---------------------------------------------------------------
RECURSIVE C10_Concat(_, _)
C10_Concat(log, n) ==
    IF n = 0 THEN << >> ELSE C10_Concat(log, n - 1) \o log[n].vertices

\* C10: the seeds are cut into contiguous batches of at most batch_size, every
\* batch is processed in index order, and when the loop has ended the pool is
\* the concatenation, in batch order, of the vertices of exactly the batches
\* whose Voronoi construction succeeded; a failing batch is skipped and stops
\* nothing.
C10_PoolIsSuccessfulBatches ==
    (pc \in {"voronoi_batches", "voronoi_filtered", "voronoi_returned",
             "voronoi_raised", "voronoi_done"} /\ downsampled_points # << >>) =>
        LET n == Len(downsampled_points)
            b == batch_size
            seedsOf(j) == SubSeq(downsampled_points, (j - 1) * b + 1, Min2(j * b, n))
            ended == pc # "voronoi_batches" \/ batch_i >= n
        IN  /\ batch_i = Len(batch_log) * b
            /\ ended => Len(batch_log) = (n + b - 1) \div b
            /\ furthest_vertices = C10_Concat(batch_log, Len(batch_log))
            /\ \A j \in 1 .. Len(batch_log) :
                  /\ Len(seedsOf(j)) \in 1 .. b
                  /\ batch_log[j].skipped => batch_log[j].vertices = << >>
            /\ (pc = "voronoi_batches" /\ batch_i >= n) =>
                  \A j \in 1 .. Len(batch_log) :
                     /\ batch_log[j].skipped = VoronoiFails(seedsOf(j))
                     /\ ~batch_log[j].skipped =>
                           LET cell_vertices == VoronoiVertexSet(seedsOf(j))
                           IN  /\ PointSet(batch_log[j].vertices) = cell_vertices
                               /\ Len(batch_log[j].vertices) = Cardinality(cell_vertices)

\* Three batches: the middle one was skipped, the vertices of the first and of
\* the last are both in the pool.
C10_Witness ==
    /\ pc = "voronoi_batches" /\ batch_i >= Len(downsampled_points)
    /\ Len(batch_log) = 3
    /\ ~batch_log[1].skipped /\ batch_log[2].skipped /\ ~batch_log[3].skipped
    /\ furthest_vertices = batch_log[1].vertices \o batch_log[3].vertices

====
